---- MODULE Spec2Model ----
(***************************************************************************)
(* A model of pythonlib:                                                   *)
(*   hyman_meanpres_spline  (mean_pres_splines.py and math_functions.py)   *)
(*   spline_fx              (mean_pres_splines.py)                         *)
(*   sumproduct             (math_functions.py)                            *)
(*   send_html_email, find_latest (file_functions.py), error_email         *)
(* Every call is a small state machine whose program counter names the     *)
(* source line about to be executed.  Python's None is the record NoneV;   *)
(* a supplied list s is Some(s).  Numbers of the spline part are integers  *)
(* (integer-valued inputs make the float arithmetic of the prefix sum      *)
(* exact); probabilities and increments of spline_fx are exact fractions,  *)
(* pairs <<numerator, denominator>>.                                       *)
(***************************************************************************)
EXTENDS Integers, Sequences, FiniteSets, TLC

VARIABLES
    hm_file,      \* which definition of hyman_meanpres_spline is called
    ts,           \* argument ts  (rate series) or None
    cdf,          \* argument cdf / icdf (cumulative curve) or None
    px_arg,       \* argument px (x-positions) as the caller passed it, or None
    px,           \* local px: the argument, replaced at lines 19/21 when it is None
    xnum,         \* argument xnum
    py,           \* local py (control values)
    i,            \* loop variable of the prefix summation (0-based, as in Python)
    rx, ry,       \* the vectors handed to R's splinefun
    derivative,   \* local derivative (-1: not yet assigned)
    x_splined,    \* the evaluation grid, as <<start, stop, num>>
    hm_pc,        \* source line about to execute, or "returned" / "raised"
    hm_err,       \* the exception that ended the call ("" if none)
    hm_ret,       \* the returned value
    sf_env,       \* spline_fx: the local namespace, a record of the bound names
    sf_pc,        \* spline_fx: source line about to execute, or "returned" / "raised"
    sf_err,       \* spline_fx: the exception that ended the call ("" if none)
    sf_ret,       \* spline_fx: the returned table (None while nothing is returned)
    sp,           \* sumproduct: the state of a call, a record
    em,           \* send_html_email: the state of a call and of the mail servers
    fl            \* find_latest: the state of a call, a record

hm_vars == <<hm_file, ts, cdf, px_arg, px, xnum, py, i, rx, ry, derivative, x_splined,
             hm_pc, hm_err, hm_ret>>
sf_vars == <<sf_env, sf_pc, sf_err, sf_ret>>
vars == <<hm_vars, sf_vars, sp, em, fl>>
\* what a step of one function leaves alone
hm_rest == <<sf_vars, sp, em, fl>>
sf_rest == <<hm_vars, sp, em, fl>>

----------------------------------------------------------------------------
(* Bounds of the model *)

\* longest rate series; cumulative curves and x-positions have up to MaxLen+1 entries
MaxLen == 2
\* largest rate and largest cumulative value of an input
MaxVal == 1
\* largest supplied x-position
MaxPos == 2

\* default of the parameter xnum
XnumDefault == 100

----------------------------------------------------------------------------
(* Python values *)

NoneV == [some |-> FALSE, v |-> <<>>]
Some(s) == [some |-> TRUE, v |-> s]
IsNone(x) == ~x.some

RECURSIVE SeqsUpTo(_, _)
SeqsUpTo(S, n) ==
    IF n = 0 THEN {<<>>}
    ELSE LET shorter == SeqsUpTo(S, n - 1)
         IN  shorter \cup {Append(s, e) : s \in {t \in shorter : Len(t) = n - 1}, e \in S}

OptSeqs(S, n) == {NoneV} \cup {Some(s) : s \in SeqsUpTo(S, n)}

Min(s) == CHOOSE m \in {s[k] : k \in 1..Len(s)} : \A k \in 1..Len(s) : m <= s[k]
Max(s) == CHOOSE m \in {s[k] : k \in 1..Len(s)} : \A k \in 1..Len(s) : m >= s[k]

\* np.linspace(start, stop, num) for the calls of lines 19 and 21, where
\* stop - start = num - 1 and the samples are the integers start..stop
Linspace(start, stop, num) == [k \in 1..num |-> start + (k - 1)]

\* [0]*n
Zeros(n) == [k \in 1..n |-> 0]

----------------------------------------------------------------------------
(* hyman_meanpres_spline *)

StrictlyIncreasing(s) == \A k \in 1..(Len(s) - 1) : s[k] < s[k + 1]
NonDecreasing(s) == \A k \in 1..(Len(s) - 1) : s[k] <= s[k + 1]

\* the cumulative curves a caller passes: accumulated values never decrease
CumulativeCurves == {c \in OptSeqs(0..MaxVal, MaxLen + 1) : NonDecreasing(c.v)}

Files == {"mean_pres_splines.py", "math_functions.py"}

HmInit ==
    /\ hm_file \in Files
    /\ ts \in OptSeqs(0..MaxVal, MaxLen)
    /\ cdf \in CumulativeCurves
    /\ px_arg \in OptSeqs(0..MaxPos, MaxLen + 1)
    /\ px = px_arg
    /\ xnum = XnumDefault
    /\ py = <<>>
    /\ i = 0
    /\ rx = <<>>
    /\ ry = <<>>
    /\ derivative = -1
    /\ x_splined = <<>>
    /\ hm_pc = "l15"
    /\ hm_err = ""
    /\ hm_ret = NoneV

HmRaise(e) ==
    /\ hm_pc' = "raised"
    /\ hm_err' = e

\* lines 15-24 (18-25 of math_functions.py): default the x-positions
DefaultPx ==
    /\ hm_pc = "l15"
    /\ IF ~IsNone(px)
       THEN /\ hm_pc' = "l25"
            /\ UNCHANGED <<px, hm_err, hm_ret>>
       ELSE IF ~IsNone(ts)
       THEN /\ px' = Some(Linspace(0, Len(ts.v), Len(ts.v) + 1))
            /\ hm_pc' = "l25"
            /\ UNCHANGED <<hm_err, hm_ret>>
       ELSE IF ~IsNone(cdf)
       THEN /\ px' = Some(Linspace(0, Len(cdf.v), Len(cdf.v) + 1))
            /\ hm_pc' = "l25"
            /\ UNCHANGED <<hm_err, hm_ret>>
       ELSE IF hm_file = "mean_pres_splines.py"
       THEN \* print(...); raise  -- a bare raise with no active exception
            /\ HmRaise("RuntimeError")
            /\ UNCHANGED <<px, hm_ret>>
       ELSE \* print(...); return  -- the call returns None
            /\ hm_pc' = "returned"
            /\ UNCHANGED <<px, hm_err, hm_ret>>
    /\ UNCHANGED <<hm_file, ts, cdf, px_arg, xnum, py, i, rx, ry, derivative, x_splined>>
    /\ UNCHANGED hm_rest

\* lines 25-27 and 30-31: choose where the control values come from
ChoosePy ==
    /\ hm_pc = "l25"
    /\ IF IsNone(cdf)
       THEN /\ py' = Zeros(Len(px.v))
            /\ i' = 0
            /\ IF IsNone(ts)
               THEN HmRaise("TypeError")        \* len(None) at line 28
               ELSE hm_pc' = "l28" /\ UNCHANGED hm_err
       ELSE /\ py' = cdf.v
            /\ hm_pc' = "l32"
            /\ UNCHANGED <<i, hm_err>>
    /\ UNCHANGED <<hm_file, ts, cdf, px_arg, px, xnum, rx, ry, derivative, x_splined, hm_ret>>
    /\ UNCHANGED hm_rest

\* line 29, with Python's 0-based i: py[i+1] = py[i]+ts[i]*(px[i+1]-px[i])
CumStepNoWidth(y, t, x, k) ==
    [y EXCEPT ![k + 2] = y[k + 1] + t[k + 1]]
CumStep(y, t, x, k) ==
    [y EXCEPT ![k + 2] = y[k + 1] + t[k + 1] * (x[k + 2] - x[k + 1])]

\* lines 28-29: one pass of the prefix summation loop
CumLoop ==
    /\ hm_pc = "l28"
    /\ IF i < Len(ts.v)
       THEN IF i + 2 <= Len(px.v)
            THEN /\ py' = CumStep(py, ts.v, px.v, i)
                 /\ i' = i + 1
                 /\ UNCHANGED <<hm_pc, hm_err>>
            ELSE \* px[i+1] is out of range
                 /\ HmRaise("IndexError")
                 /\ UNCHANGED <<py, i>>
       ELSE /\ hm_pc' = "l32"
            /\ UNCHANGED <<py, i, hm_err>>
    /\ UNCHANGED <<hm_file, ts, cdf, px_arg, px, xnum, rx, ry, derivative, x_splined, hm_ret>>
    /\ UNCHANGED hm_rest

\* ro.FloatVector(v): the same numbers, as an R vector of doubles
FloatVector(v) == [k \in 1..Len(v) |-> v[k]]

\* lines 32-33: the control points are handed over to R
ToR ==
    /\ hm_pc = "l32"
    /\ rx' = FloatVector(px.v)
    /\ ry' = FloatVector(py)
    /\ hm_pc' = "l34"
    /\ UNCHANGED <<hm_file, ts, cdf, px_arg, px, xnum, py, i, derivative, x_splined, hm_err, hm_ret>>
    /\ UNCHANGED hm_rest

\* the sum of the y[k] whose x[k] is v, and their number, among the first n
RECURSIVE TieSum(_, _, _, _)
TieSum(x, y, v, n) ==
    IF n = 0 THEN 0 ELSE TieSum(x, y, v, n - 1) + (IF x[n] = v THEN y[n] ELSE 0)
TieCount(x, v) == Cardinality({k \in 1..Len(x) : x[k] = v})
XValues(x) == {x[k] : k \in 1..Len(x)}

\* R orders the points by x and replaces points of equal x by one point with
\* the mean of their y (regularize.values, ties = mean); the 'hyman' method
\* then wants these y to be monotone.  The means are compared as fractions.
MeansMonotone(x, y) ==
    LET leq(u, v) == TieSum(x, y, u, Len(x)) * TieCount(x, v)
                        <= TieSum(x, y, v, Len(x)) * TieCount(x, u)
    IN  \/ \A u, v \in XValues(x) : u < v => leq(u, v)
        \/ \A u, v \in XValues(x) : u < v => leq(v, u)

\* What the call of R's splinefun(x, y, method='hyman') at line 35 does with the
\* vectors it is given.  The Python code checks nothing before the call.  R
\* refuses vectors of different lengths, empty ones and non-monotone y; it fits
\* every other set with two or more distinct x.  What it does with a single
\* distinct x is left open.
SplinefunOutcomes(x, y) ==
    IF Len(x) # Len(y) \/ Len(x) = 0 THEN {"raised"}
    ELSE IF Cardinality(XValues(x)) = 1 THEN {"fitted", "raised"}
    ELSE IF MeansMonotone(x, y) THEN {"fitted"}
    ELSE {"raised"}

\* The fitted spline interpolates: at a control position v its value is the
\* control value there, the mean <<sum, count>> of the y given for v.
KnotValue(x, y, v) == <<TieSum(x, y, v, Len(x)), TieCount(x, v)>>

\* lines 34-35: the spline fit
Fit ==
    /\ hm_pc = "l34"
    /\ \E o \in SplinefunOutcomes(rx, ry) :
          IF o = "fitted"
          THEN hm_pc' = "l36" /\ UNCHANGED hm_err
          ELSE HmRaise("RRuntimeError")
    /\ UNCHANGED <<hm_file, ts, cdf, px_arg, px, xnum, py, i, rx, ry, derivative, x_splined, hm_ret>>
    /\ UNCHANGED hm_rest

\* lines 38-41: the evaluation mode
DerivativeOf(t) == IF ~IsNone(t) THEN 1 ELSE 0

\* lines 36-43: build the evaluation grid, select the mode, evaluate the fitted
\* spline and return.  The result is kept as the spline's description: its
\* control points, the grid <<start, stop, num>> and the derivative order.
Evaluate ==
    /\ hm_pc = "l36"
    /\ x_splined' = <<Min(px.v), Max(px.v), xnum>>
    /\ derivative' = DerivativeOf(ts)
    /\ hm_ret' = Some([x |-> rx, y |-> ry, at |-> x_splined', deriv |-> derivative'])
    /\ hm_pc' = "returned"
    /\ UNCHANGED <<hm_file, ts, cdf, px_arg, px, xnum, py, i, rx, ry, hm_err>>
    /\ UNCHANGED hm_rest

----------------------------------------------------------------------------
(* spline_fx *)

\* most rows of an input table, and most requested levels in a list
MaxRows == 2
MaxQ == 2

\* line 77: qs=[0.01, 0.025, 0.05, 0.1, 0.25, 0.5, 0.75, 0.9, 0.95, 0.975, 0.99]
QS == << <<10, 1000>>, <<25, 1000>>, <<50, 1000>>, <<100, 1000>>, <<250, 1000>>,
         <<500, 1000>>, <<750, 1000>>, <<900, 1000>>, <<950, 1000>>, <<975, 1000>>,
         <<990, 1000>> >>
GridSize == Len(QS)

\* line 45: the default inc=0.5, and another increment a caller may pass
IncDefault == <<1, 2>>
Incs == {IncDefault, <<1, 1>>}

\* requested levels, in percent: 1, 10.3, 50, 99 and 100
QLevels == {<<1, 1>>, <<103, 10>>, <<50, 1>>, <<99, 1>>, <<100, 1>>}

\* qvals is a single number or a list of numbers (line 67)
QvalArgs ==
    {[list |-> FALSE, v |-> <<q>>] : q \in QLevels}
    \cup {[list |-> TRUE, v |-> s] : s \in SeqsUpTo(QLevels, MaxQ)}

\* rows of raw_cdf: non-decreasing values, one per level of the canonical grid or
\* fewer (a malformed row)
TableRows == {[j \in 1..n |-> b + j] : n \in (GridSize - 2)..GridSize, b \in 0..MaxVal}
Tables == SeqsUpTo(TableRows, MaxRows)

\* the names spline_fx assigns anywhere in its body are its local names
\* (inc 61, upper 63, lower 64, xnum 65, qvals 68, idx 69, qvalname 70, fxdf 73,
\* qs 77, m 80, fls 82, xs and for_samples 84) together with its parameters
SfLocalNames == {"qvals", "raw_cdf", "inc", "upper", "lower", "xnum", "idx",
                 "qvalname", "fxdf", "qs", "m", "fls", "xs", "for_samples"}

\* a local name can be read once an assignment has bound it
IsBound(env, name) == name \in DOMAIN env

\* no call of hyman_meanpres_spline is in progress
HmIdle ==
    /\ hm_file = "mean_pres_splines.py"
    /\ ts = NoneV
    /\ cdf = NoneV
    /\ px_arg = NoneV
    /\ px = NoneV
    /\ xnum = XnumDefault
    /\ py = <<>>
    /\ i = 0
    /\ rx = <<>>
    /\ ry = <<>>
    /\ derivative = -1
    /\ x_splined = <<>>
    /\ hm_pc = "idle"
    /\ hm_err = ""
    /\ hm_ret = NoneV

\* line 45: on entry only the parameters are bound
SfInit ==
    /\ \E q \in QvalArgs, t \in Tables, c \in Incs :
          sf_env = [qvals |-> q, raw_cdf |-> t, inc |-> c]
    /\ sf_pc = "l61"
    /\ sf_err = ""
    /\ sf_ret = NoneV

\* inc/100.0
Div100(a) == <<a[1], a[2] * 100>>

\* line 61: inc = inc/100.0
ScaleInc ==
    /\ sf_pc = "l61"
    /\ sf_env' = [sf_env EXCEPT !.inc = Div100(@)]
    /\ sf_pc' = "l63"
    /\ UNCHANGED <<sf_err, sf_ret>>
    /\ UNCHANGED sf_rest

\* line 63: upper = qs[0].  qs is a local name of spline_fx whose only assignment
\* is at line 77, so reading it here raises UnboundLocalError.
ReadQs ==
    /\ sf_pc = "l63"
    /\ "qs" \in SfLocalNames
    /\ ~IsBound(sf_env, "qs")
    /\ sf_pc' = "raised"
    /\ sf_err' = "UnboundLocalError"
    /\ UNCHANGED <<sf_env, sf_ret>>
    /\ UNCHANGED sf_rest

\* no call of spline_fx is in progress
SfIdle ==
    /\ sf_env = <<>>
    /\ sf_pc = "idle"
    /\ sf_err = ""
    /\ sf_ret = NoneV

----------------------------------------------------------------------------
(* sumproduct *)

\* the vectors passed to sumproduct: up to three, of up to MaxLen numbers
SpVals == 0..(MaxVal + 1)
SpArities == 0..3
SpArgs == UNION {[1..k -> SeqsUpTo(SpVals, MaxLen)] : k \in SpArities}

\* zip(*lists) yields tuples until the shortest list is exhausted
ZipLen(lists) ==
    IF Len(lists) = 0 THEN 0
    ELSE Min([k \in 1..Len(lists) |-> Len(lists[k])])
ZipTuple(lists, j) == [k \in 1..Len(lists) |-> lists[k][j]]

\* functools.reduce(operator.mul, data): a left fold over the tuple
RECURSIVE ReduceMulUpTo(_, _)
ReduceMulUpTo(data, n) ==
    IF n = 1 THEN data[1] ELSE ReduceMulUpTo(data, n - 1) * data[n]
ReduceMulFirstTwo(data) == ReduceMulUpTo(data, IF Len(data) > 2 THEN 2 ELSE Len(data))
ReduceMul(data) == ReduceMulUpTo(data, Len(data))

\* line 45: the call; sum() starts from 0
SpInit ==
    \E l \in SpArgs : sp = [pc |-> "l49", lists |-> l, j |-> 0, acc |-> 0, ret |-> NoneV]

\* line 49: sum() takes the next product from the generator
SpAdd ==
    /\ sp.pc = "l49"
    /\ sp.j < ZipLen(sp.lists)
    /\ sp' = [sp EXCEPT !.j = @ + 1,
                        !.acc = @ + ReduceMul(ZipTuple(sp.lists, sp.j + 1))]
    /\ UNCHANGED <<hm_vars, sf_vars, em, fl>>

\* line 49: the generator is exhausted and the sum is returned
SpReturn ==
    /\ sp.pc = "l49"
    /\ sp.j = ZipLen(sp.lists)
    /\ sp' = [sp EXCEPT !.pc = "returned", !.ret = Some(sp.acc)]
    /\ UNCHANGED <<hm_vars, sf_vars, em, fl>>

\* no call of sumproduct is in progress
SpIdle == sp = [pc |-> "idle"]

----------------------------------------------------------------------------
(* send_html_email *)

\* a Python str and a Python list of str; v holds the text, or the elements
Str(t) == [list |-> FALSE, v |-> <<t>>]
List(q) == [list |-> TRUE, v |-> q]

\* the current system user, as os.getlogin() and getpass.getuser() report it
Login == "login"
\* the addresses the two yaml files hold
SigFrom == "alice@example"
DistTo == <<"team@example", "lead@example">>
DistCc == <<"boss@example">>
\* what email_signatures.yaml and email_dist_lists.yaml can be
SigFiles == {"missing", "nohtml", "ok"}
DistFiles == {"missing", "nokey", "to", "tocc", "toemptycc"}
\* the image and the attachments: none asked for, all readable, one unreadable
FileArgs == {"none", "readable", "unreadable"}

\* COMMASPACE.join: of a list it joins the elements, of a str its characters
Join(x) == [of |-> IF x.list THEN "elements" ELSE "characters", v |-> x.v]
\* the truth value Python gives a recipient list (None and [] are false)
Truthy(x) == IF x = NoneV THEN FALSE ELSE x.v.v # <<>>

\* line 58: the mail goes to the sender alone
UseSelfBoth(testmode, dist_name) == testmode /\ IsNone(dist_name)
UseSelf(testmode, dist_name) == testmode \/ IsNone(dist_name)

\* line 106: the number of tries
EmailRetriesPlusOne == 5 + 1
EmailRetries == 5

\* error_email, lines 7-8: the parameters in their order, and the binding of
\* positional arguments to them
ErrorEmailParams == <<"e", "origin_script", "errmsg", "email_recipients_list">>
ErrorEmailDefaults ==
    [e |-> Some(Str("Something went wrong!")), origin_script |-> Some(Str("")),
     errmsg |-> Some(Str("")), email_recipients_list |-> NoneV]
BindPositional(args) ==
    [n \in DOMAIN ErrorEmailDefaults |->
        LET k == CHOOSE k \in 1..Len(ErrorEmailParams) : ErrorEmailParams[k] = n
        IN  IF k <= Len(args) THEN args[k] ELSE ErrorEmailDefaults[n]]

\* the state of error_email before it is called
EeIdle == [calls |-> 0, params |-> ErrorEmailDefaults, recipients |-> NoneV,
           msg |-> NoneV, sent |-> FALSE]

\* lines 14-15: the call, with the files it will find
EmInit ==
    \E tm \in BOOLEAN, dn \in {NoneV, Some("team")}, fu \in {NoneV, Some("bob")},
       sg \in SigFiles, df \in DistFiles, fa \in FileArgs :
        em = [pc |-> "l39", testmode |-> tm, dist_name |-> dn, from_user |-> fu,
              sig_file |-> sg, dist_file |-> df, files |-> fa,
              dist_read |-> FALSE, email_list |-> NoneV, FROM_list |-> NoneV,
              TO_list |-> NoneV, CC_list |-> NoneV, msg |-> NoneV,
              email_retries |-> 0, attempts |-> 0, delivered |-> 0,
              ee |-> EeIdle, err |-> ""]

EmRest == <<hm_vars, sf_vars, sp, fl>>
EmRaise(e) == em' = [em EXCEPT !.pc = "raised", !.err = e]

\* lines 39-44
Defaults ==
    /\ em.pc = "l39"
    /\ em' = [em EXCEPT !.pc = "l46",
                        !.from_user = IF IsNone(@) THEN Some(Login) ELSE @]
    /\ UNCHANGED EmRest

\* lines 46-56: the sender's address, from the signature file or the login
ReadSignatures ==
    /\ em.pc = "l46"
    /\ LET el == IF em.sig_file = "ok" THEN List(<<SigFrom>>) ELSE List(<<Login>>)
       IN  em' = [em EXCEPT !.pc = "l58", !.email_list = Some(el), !.FROM_list = Some(el)]
    /\ UNCHANGED EmRest

\* lines 58-73: the recipients
Recipients ==
    /\ em.pc = "l58"
    /\ IF UseSelf(em.testmode, em.dist_name)
       THEN em' = [em EXCEPT !.pc = "l76", !.TO_list = em.email_list,
                             !.CC_list = Some(List(<<>>))]
       ELSE em' = [em EXCEPT !.pc = "l76", !.dist_read = TRUE,
                      !.TO_list = IF em.dist_file \in {"missing", "nokey"}
                                  THEN Some(Str(em.from_user.v))
                                  ELSE Some(List(DistTo)),
                      !.CC_list = CASE em.dist_file = "tocc" -> Some(List(DistCc))
                                    [] em.dist_file = "toemptycc" -> Some(List(<<>>))
                                    [] OTHER -> NoneV]
    /\ UNCHANGED EmRest

\* line 76: the connection to the server, which can fail
Connect ==
    /\ em.pc = "l76"
    /\ \/ em' = [em EXCEPT !.pc = "l79"]
       \/ EmRaise("SMTPConnectError")
    /\ UNCHANGED EmRest

\* lines 79-84: the headers
BuildMessage ==
    /\ em.pc = "l79"
    /\ em' = [em EXCEPT !.pc = "l87",
                 !.msg = Some([From |-> Join(em.FROM_list.v), To |-> Join(em.TO_list.v),
                               Cc |-> IF Truthy(em.CC_list)
                                      THEN Some(Join(em.CC_list.v)) ELSE NoneV])]
    /\ UNCHANGED EmRest

\* lines 87-103: the image and the attachments are read
Attach ==
    /\ em.pc = "l87"
    /\ IF em.files = "unreadable" THEN EmRaise("OSError")
       ELSE em' = [em EXCEPT !.pc = "l106"]
    /\ UNCHANGED EmRest

\* line 106
StartLoop ==
    /\ em.pc = "l106"
    /\ em' = [em EXCEPT !.pc = "l107", !.email_retries = EmailRetries]
    /\ UNCHANGED EmRest

\* lines 107-111: a try that succeeds
SendOk ==
    /\ em.pc = "l107"
    /\ em.email_retries > 0
    /\ em' = [em EXCEPT !.pc = "l123", !.attempts = @ + 1, !.delivered = @ + 1,
                        !.email_retries = 0]
    /\ UNCHANGED EmRest

\* lines 107-109, 112-113, 120-122: a try that fails and is not the last
SendFail ==
    /\ em.pc = "l107"
    /\ em.email_retries > 0
    /\ em.email_retries # 1
    /\ em' = [em EXCEPT !.attempts = @ + 1, !.email_retries = @ - 1]
    /\ UNCHANGED EmRest

\* lines 107-109, 112-117: the last try fails and error_email is called
SendFailLast ==
    /\ em.pc = "l107"
    /\ em.email_retries = 1
    /\ em' = [em EXCEPT !.pc = "ee10", !.attempts = @ + 1,
                 !.ee = [@ EXCEPT !.calls = @ + 1,
                            !.params = BindPositional(
                                <<Some(Str("exception")), em.email_list,
                                  Some(Str("__file__")),
                                  Some(Str("Failed to send email.\n"))>>)]]
    /\ UNCHANGED EmRest

\* error_email, lines 10-13
EeRecipients ==
    /\ em.pc = "ee10"
    /\ LET r == em.ee.params.email_recipients_list
       IN  em' = [em EXCEPT !.pc = "ee16",
                     !.ee.recipients = IF IsNone(r) THEN Some(List(<<Login>>))
                                       ELSE IF r.v.list THEN r
                                       ELSE Some(List(r.v.v))]
    /\ UNCHANGED EmRest

\* error_email, line 16
EeConnect ==
    /\ em.pc = "ee16"
    /\ \/ em' = [em EXCEPT !.pc = "ee19"]
       \/ EmRaise("SMTPConnectError")
    /\ UNCHANGED EmRest

\* error_email, lines 19-28: the message is built and sent, which can fail
EeSend ==
    /\ em.pc = "ee19"
    /\ LET m == [From |-> Login, To |-> Join(em.ee.recipients.v),
                 Subject |-> em.ee.params.origin_script,
                 body |-> <<em.ee.params.origin_script, em.ee.params.e,
                            em.ee.params.errmsg>>]
       IN  \/ em' = [em EXCEPT !.pc = "l118", !.ee.msg = Some(m), !.ee.sent = TRUE]
           \/ em' = [em EXCEPT !.pc = "raised", !.err = "SMTPException",
                               !.ee.msg = Some(m)]
    /\ UNCHANGED EmRest

\* lines 118-119
AfterError ==
    /\ em.pc = "l118"
    /\ em' = [em EXCEPT !.pc = "l123", !.email_retries = 0]
    /\ UNCHANGED EmRest

\* line 123, reached by break or by the loop condition turning false
Finish ==
    /\ \/ em.pc = "l123"
       \/ em.pc = "l107" /\ em.email_retries <= 0
    /\ em' = [em EXCEPT !.pc = "returned"]
    /\ UNCHANGED EmRest

\* no call of send_html_email is in progress
EmIdle == em = [pc |-> "idle"]

----------------------------------------------------------------------------
(* find_latest *)

\* a str is a sequence of characters; the characters used, in code-point order
Alphabet ==
    <<"0", "1", "2", "3", "4", "5", "6", "7", "8", "9",
      "A", "B", "C", "D", "E", "F", "J", "N", "_",
      "a", "b", "c", "d", "e", "f", "j", "n", "~">>
Ord(c) == CHOOSE k \in 1..Len(Alphabet) : Alphabet[k] = c
LowerLetters == <<"a", "b", "c", "d", "e", "f", "j", "n">>
UpperLetters == <<"A", "B", "C", "D", "E", "F", "J", "N">>

\* str.upper() and str.lower()
UpperChar(c) ==
    IF \E k \in 1..Len(LowerLetters) : LowerLetters[k] = c
    THEN UpperLetters[CHOOSE k \in 1..Len(LowerLetters) : LowerLetters[k] = c]
    ELSE c
LowerChar(c) ==
    IF \E k \in 1..Len(UpperLetters) : UpperLetters[k] = c
    THEN LowerLetters[CHOOSE k \in 1..Len(UpperLetters) : UpperLetters[k] = c]
    ELSE c
Upper(t) == [k \in 1..Len(t) |-> UpperChar(t[k])]
Lower(t) == [k \in 1..Len(t) |-> LowerChar(t[k])]

\* int() of a string of digits
RECURSIVE ParseInt(_)
ParseInt(t) ==
    IF Len(t) = 0 THEN 0
    ELSE 10 * ParseInt(SubSeq(t, 1, Len(t) - 1)) + (Ord(t[Len(t)]) - Ord("0"))

\* "t in f" for two str
Contains(f, t) ==
    \E o \in 0..(Len(f) - Len(t)) : \A k \in 1..Len(t) : f[o + k] = t[k]

\* the order of str, by code points, that sorted() uses
RECURSIVE LexLeq(_, _)
LexLeq(a, b) ==
    IF Len(a) = 0 THEN TRUE
    ELSE IF Len(b) = 0 THEN FALSE
    ELSE IF a[1] # b[1] THEN Ord(a[1]) < Ord(b[1])
    ELSE LexLeq(Tail(a), Tail(b))
\* sorted(fs)[-1]
LastSorted(fs) == CHOOSE f \in fs : \A g \in fs : LexLeq(g, f)

\* dt.date(t_yr, m, 1).strftime(y_mo_fmt) for the formats "%m" and "%b"
MonthNumber == [m \in {1, 2, 12} |->
    CASE m = 1 -> <<"0", "1">> [] m = 2 -> <<"0", "2">> [] m = 12 -> <<"1", "2">>]
MonthName == [m \in {1, 2, 12} |->
    CASE m = 1 -> <<"J", "a", "n">> [] m = 2 -> <<"F", "e", "b">>
      [] m = 12 -> <<"D", "e", "c">>]
Strftime(m, fmt) == IF fmt = "%m" THEN MonthNumber[m] ELSE MonthName[m]

\* an int argument and a str argument
IntArg(n) == [str |-> FALSE, n |-> n, s |-> <<>>]
StrArg(t) == [str |-> TRUE, n |-> 0, s |-> t]

\* the arguments of find_latest
YearArgs == {IntArg(2024), StrArg(<<"2", "0", "2", "4">>), StrArg(<<"2", "4">>),
             StrArg(<<"0", "2", "4">>)}
MonthArgs == {IntArg(1), IntArg(2), StrArg(<<"0", "2">>)}
MonthFormats == {"%m", "%b"}
MonthCases == {"cap", "upper", "lower"}
MatchLists == {<<>>, << <<"a">> >>, << <<"a">>, <<"b">> >>}

\* the file names a directory can hold: an optional "~", a tag, a month, and
\* an optional version digit
MaxFiles == 2
FileNames ==
    {pre \o tag \o <<"_">> \o mon \o ver :
        pre \in {<<>>, <<"~">>}, tag \in {<<"a">>, <<"a", "b">>},
        mon \in {<<"0", "1">>, <<"0", "2">>, <<"1", "2">>, <<"J", "a", "n">>,
                 <<"J", "A", "N">>, <<"j", "a", "n">>, <<"F", "e", "b">>,
                 <<"D", "e", "c">>},
        ver \in {<<>>, <<"2">>}}
RECURSIVE DirectoriesUpTo(_)
DirectoriesUpTo(n) ==
    IF n = 0 THEN {{}}
    ELSE LET ds == DirectoriesUpTo(n - 1)
         IN  ds \cup {d \cup {f} : d \in ds, f \in FileNames}
Directories == DirectoriesUpTo(MaxFiles)

\* line 126: the call; f_latest is a local name that is not bound yet
FlInit ==
    \E ty \in YearArgs, ym \in MonthArgs, fmt \in MonthFormats,
       cs \in MonthCases, ml \in MatchLists, d \in Directories :
        fl = [pc |-> "l142", t_yr |-> ty, y_mo |-> ym, y_mo_fmt |-> fmt,
              mo_fmt_case |-> cs, str_match_list |-> ml, dir |-> d,
              candidate_files |-> {}, mos |-> <<>>, f_latest |-> NoneV,
              ret |-> NoneV, err |-> ""]

FlRest == <<hm_vars, sf_vars, sp, em>>

\* lines 142-151: the month and the year become int; a year string of a
\* length other than 2 or 4 ends the call with None
Convert ==
    /\ fl.pc = "l142"
    /\ LET ym == IF fl.y_mo.str THEN IntArg(ParseInt(fl.y_mo.s)) ELSE fl.y_mo
       IN  IF ~fl.t_yr.str
           THEN fl' = [fl EXCEPT !.pc = "l152", !.y_mo = ym]
           ELSE IF Len(fl.t_yr.s) = 4
           THEN fl' = [fl EXCEPT !.pc = "l152", !.y_mo = ym,
                                 !.t_yr = IntArg(ParseInt(fl.t_yr.s))]
           ELSE IF Len(fl.t_yr.s) = 2
           THEN fl' = [fl EXCEPT !.pc = "l152", !.y_mo = ym,
                                 !.t_yr = IntArg(ParseInt(fl.t_yr.s) + 2000)]
           ELSE fl' = [fl EXCEPT !.pc = "returned", !.y_mo = ym]
    /\ UNCHANGED FlRest

\* lines 152-155: the candidates hold every string of str_match_list and do
\* not start with "~"; str_match_list[0] of an empty list raises
FilterCandidates ==
    /\ fl.pc = "l152"
    /\ IF Len(fl.str_match_list) = 0
       THEN fl' = [fl EXCEPT !.pc = "raised", !.err = "IndexError"]
       ELSE fl' = [fl EXCEPT !.pc = "l156",
                      !.candidate_files =
                          {f \in fl.dir :
                              /\ \A k \in 1..Len(fl.str_match_list) :
                                    Contains(f, fl.str_match_list[k])
                              /\ f[1] # "~"}]
    /\ UNCHANGED FlRest

\* lines 156-159: the months to search
SetMonths ==
    /\ fl.pc = "l156"
    /\ fl' = [fl EXCEPT !.pc = "l160",
                 !.mos = IF fl.y_mo.n = 1 THEN <<1, 12>>
                         ELSE [k \in 1..fl.y_mo.n |-> fl.y_mo.n + 1 - k]]
    /\ UNCHANGED FlRest

\* lines 160-171: one pass of the loop over the months
SearchMonth ==
    /\ fl.pc = "l160"
    /\ Len(fl.mos) > 0
    /\ LET mon0 == Strftime(Head(fl.mos), fl.y_mo_fmt)
           mon  == IF Lower(<<fl.mo_fmt_case>>) = <<"upper">> THEN Upper(mon0)
                   ELSE IF Lower(<<fl.mo_fmt_case>>) = <<"lower">> THEN Lower(mon0)
                   ELSE mon0
           t_fs == {f \in fl.candidate_files : Contains(f, mon)}
       IN  IF t_fs # {}
           THEN fl' = [fl EXCEPT !.pc = "l172", !.f_latest = Some(LastSorted(t_fs))]
           ELSE fl' = [fl EXCEPT !.mos = Tail(@)]
    /\ UNCHANGED FlRest

\* line 172, reached by break or at the end of the loop: reading f_latest
\* raises when no pass of the loop has bound it
ReturnLatest ==
    /\ \/ fl.pc = "l172"
       \/ fl.pc = "l160" /\ Len(fl.mos) = 0
    /\ IF fl.f_latest = NoneV
       THEN fl' = [fl EXCEPT !.pc = "raised", !.err = "UnboundLocalError"]
       ELSE fl' = [fl EXCEPT !.pc = "returned", !.ret = fl.f_latest]
    /\ UNCHANGED FlRest

\* no call of find_latest is in progress
FlIdle == fl = [pc |-> "idle"]

----------------------------------------------------------------------------
(* Specifications *)

HmCall == HmInit /\ SfIdle /\ SpIdle /\ EmIdle /\ FlIdle

HmNext == DefaultPx \/ ChoosePy \/ CumLoop \/ ToR \/ Fit \/ Evaluate

SpecHyman == HmCall /\ [][HmNext]_vars

SfCall == HmIdle /\ SfInit /\ SpIdle /\ EmIdle /\ FlIdle

SfNext == ScaleInc \/ ReadQs

SpecSplineFx == SfCall /\ [][SfNext]_vars

SpCall == HmIdle /\ SfIdle /\ SpInit /\ EmIdle /\ FlIdle

SpNext == SpAdd \/ SpReturn

SpecSumproduct == SpCall /\ [][SpNext]_vars

EmCall == HmIdle /\ SfIdle /\ SpIdle /\ EmInit /\ FlIdle

EmNext ==
    \/ Defaults \/ ReadSignatures \/ Recipients \/ Connect \/ BuildMessage
    \/ Attach \/ StartLoop \/ SendOk \/ SendFail \/ SendFailLast
    \/ EeRecipients \/ EeConnect \/ EeSend \/ AfterError \/ Finish

\* the interpreter runs the call to its end: every call it makes returns or raises
SpecSend == EmCall /\ [][EmNext]_vars /\ WF_vars(EmNext)

FlCall == HmIdle /\ SfIdle /\ SpIdle /\ EmIdle /\ FlInit

FlNext == Convert \/ FilterCandidates \/ SetMonths \/ SearchMonth \/ ReturnLatest

SpecFindLatest == FlCall /\ [][FlNext]_vars

----------------------------------------------------------------------------
(* Properties of hyman_meanpres_spline, checked under SpecHyman *)

TsOnly == ~IsNone(ts) /\ IsNone(cdf)
ExactlyOne == IsNone(ts) # IsNone(cdf)

\* the prefix summation loop has run to its end
CumulativeBuilt ==
    \/ hm_pc \in {"l32", "l34", "l36", "returned"}
    \/ hm_pc = "raised" /\ hm_err = "RRuntimeError"

\* sum over i of t[i] * (x[i+1] - x[i])
RECURSIVE WeightedTotal(_, _, _)
WeightedTotal(t, x, n) ==
    IF n = 0 THEN 0 ELSE WeightedTotal(t, x, n - 1) + t[n] * (x[n + 1] - x[n])

\* C1: called with a rate series ts of length N only, and x-positions px of
\* length N+1 (supplied or generated), the control values are py[0] = 0 and
\* py[i+1] = py[i] + ts[i]*(px[i+1]-px[i]), so that the last one is the sum of
\* ts[i]*(px[i+1]-px[i]).
C1_PrefixSum ==
    (TsOnly /\ CumulativeBuilt /\ Len(px.v) = Len(ts.v) + 1) =>
        /\ Len(py) = Len(ts.v) + 1
        /\ py[1] = 0
        /\ \A k \in 1..Len(ts.v) : py[k + 1] = py[k] + ts.v[k] * (px.v[k + 1] - px.v[k])
        /\ py[Len(py)] = WeightedTotal(ts.v, px.v, Len(ts.v))

\* a call with a rate series over intervals of different widths has returned
C1_Witness ==
    /\ hm_pc = "returned"
    /\ TsOnly
    /\ ts.v = <<1, 1>>
    /\ px.v = <<0, 0, 2>>
    /\ py = <<0, 0, 2>>

\* C2: a call in which both or neither of ts and cdf are supplied never returns:
\* it ends with an error.
C2_ExactlyOneInput == ~ExactlyOne => hm_pc # "returned"

\* the number of control values the input stands for
ControlLen == IF IsNone(cdf) THEN Len(ts.v) + 1 ELSE Len(cdf.v)

\* what the contract accepts: exactly one input, standing for at least two
\* control values, and x-positions, when supplied, as many as these and
\* strictly increasing
Accepted ==
    /\ ExactlyOne
    /\ ControlLen >= 2
    /\ IsNone(px_arg) \/ (Len(px_arg.v) = ControlLen /\ StrictlyIncreasing(px_arg.v))

\* C3: for every accepted input the control points handed to the spline fit have
\* as many x-positions as values, and at least two; when px is omitted the
\* generated positions are 0..N, as many as the control values, for a rate
\* series of N values and for a cumulative curve of N+1 values alike.
C3_ControlPointLengths ==
    (Accepted /\ hm_pc = "l34") =>
        /\ Len(rx) = Len(ry)
        /\ Len(rx) >= 2
        /\ IsNone(px_arg) => rx = Linspace(0, ControlLen - 1, ControlLen)

\* C4, for control points of two or more different x-positions: when the
\* x-positions are not strictly increasing the call is rejected with an error,
\* so that no spline fitted to them is ever evaluated and returned.
C4_DegenerateRejected ==
    (hm_pc = "returned" /\ hm_ret.some /\ Cardinality(XValues(hm_ret.v.x)) >= 2) =>
        StrictlyIncreasing(hm_ret.v.x)

\* C5, for control points of two or more different x-positions: in a returned
\* spline the derivative order is 1 exactly when the control values were built
\* from the rate series, and 0 exactly when they are the supplied cumulative
\* curve; mode and control values come from the same input.
C5_ModeMatchesControlValues ==
    (hm_pc = "returned" /\ hm_ret.some /\ Cardinality(XValues(hm_ret.v.x)) >= 2) =>
        /\ hm_ret.v.deriv = 1 <=> IsNone(cdf)
        /\ hm_ret.v.deriv = 0 <=> (~IsNone(cdf) /\ hm_ret.v.y = cdf.v)

CdfOnly == IsNone(ts) /\ ~IsNone(cdf)

\* C12: for a cumulative-curve control set with non-decreasing values, the
\* values returned over the evaluation grid are non-decreasing from the first
\* grid point to the last.  The grid starts at the least and ends at the
\* greatest control position, where the spline takes the control values, so
\* the first returned value must not exceed the last one.
C12_MonotoneOutput ==
    (hm_pc = "returned" /\ CdfOnly /\ NonDecreasing(cdf.v)
        /\ hm_ret.v.deriv = 0 /\ hm_ret.v.at[3] >= 2) =>
        LET first == KnotValue(hm_ret.v.x, hm_ret.v.y, hm_ret.v.at[1])
            last  == KnotValue(hm_ret.v.x, hm_ret.v.y, hm_ret.v.at[2])
        IN  first[1] * last[2] <= last[1] * first[2]

----------------------------------------------------------------------------
(* Properties of spline_fx, checked under SpecSplineFx *)

SfEnded == sf_pc \in {"returned", "raised"}

\* arithmetic of rationals <<numerator, denominator>>
RAdd(a, b) == <<a[1] * b[2] + b[1] * a[2], a[2] * b[2]>>
RSub(a, b) == <<a[1] * b[2] - b[1] * a[2], a[2] * b[2]>>
RDiv(a, b) == IF b[1] > 0 THEN <<a[1] * b[2], a[2] * b[1]>> ELSE <<-(a[1] * b[2]), -(a[2] * b[1])>>
REq(a, b) == a[1] * b[2] = b[1] * a[2]
RLeq(a, b) == a[1] * b[2] <= b[1] * a[2]
RIsInt(a) == a[1] % a[2] = 0
\* the integer nearest to a (halves upwards)
RRound(a) == (2 * a[1] + a[2]) \div (2 * a[2])


MinLevel == QS[1]
MaxLevel == QS[GridSize]

\* a level in percent, as a fraction
Fraction(q) == <<q[1], q[2] * 100>>

\* the position of level q (a fraction) on the fine grid of increment c
GridPosition(q, c) == RDiv(RSub(q, MinLevel), c)
\* the number of fine-grid points at increment c
GridCount(c) == RAdd(RDiv(RSub(MaxLevel, MinLevel), c), <<1, 1>>)

OnGrid(q, c) ==
    /\ RLeq(MinLevel, Fraction(q))
    /\ RLeq(Fraction(q), MaxLevel)
    /\ RIsInt(GridPosition(Fraction(q), c))

FullRows(t) == \A m \in 1..Len(t) : Len(t[m]) = GridSize
AllOnGrid(q, c) == \A j \in 1..Len(q) : OnGrid(q[j], c)

\* C6: for a table whose rows hold one value per canonical level, spline_fx
\* returns a table with one row per input row, under the same index in the same
\* order, and one column "Q"+level per requested level.
C6_OneRowPerInputRow ==
    (SfEnded /\ Len(sf_env.raw_cdf) >= 1 /\ FullRows(sf_env.raw_cdf)
        /\ Len(sf_env.qvals.v) >= 1 /\ AllOnGrid(sf_env.qvals.v, sf_env.inc)) =>
        /\ sf_pc = "returned"
        /\ sf_ret.some
        /\ sf_ret.v.index = [m \in 1..Len(sf_env.raw_cdf) |-> m]
        /\ Len(sf_ret.v.rows) = Len(sf_env.raw_cdf)
        /\ sf_ret.v.columns = [j \in 1..Len(sf_env.qvals.v) |-> <<"Q", sf_env.qvals.v[j]>>]

\* C7: the fine grid has (max - min)/increment + 1 points between the lowest and
\* the highest canonical level, a positive integer; 197 for the default increment.
C7_FineGridCount ==
    SfEnded =>
        /\ IsBound(sf_env, "xnum")
        /\ REq(sf_env.xnum, GridCount(sf_env.inc))
        /\ RIsInt(sf_env.xnum) /\ sf_env.xnum[1] > 0
        /\ (sf_env.inc = Div100(IncDefault) => REq(sf_env.xnum, <<197, 1>>))

\* C8: every requested level within the grid's span is given the index
\* round((level - lowest level)/increment), which lies in 0..(points - 1).
C8_IndexOfLevel ==
    (SfEnded /\ \E j \in 1..Len(sf_env.qvals.v) : OnGrid(sf_env.qvals.v[j], sf_env.inc)) =>
        /\ IsBound(sf_env, "idx")
        /\ \A j \in 1..Len(sf_env.qvals.v) :
              OnGrid(sf_env.qvals.v[j], sf_env.inc) =>
                  /\ sf_env.idx[j] = RRound(GridPosition(Fraction(sf_env.qvals.v[j]), sf_env.inc))
                  /\ sf_env.idx[j] >= 0
                  /\ RLeq(<<sf_env.idx[j] + 1, 1>>, GridCount(sf_env.inc))

\* C9: a requested level that is not a point of the fine grid makes spline_fx
\* fail with an increment-mismatch error.
C9_IncrementMismatch ==
    (SfEnded /\ \E j \in 1..Len(sf_env.qvals.v) : ~OnGrid(sf_env.qvals.v[j], sf_env.inc)) =>
        /\ sf_pc = "raised"
        /\ sf_err = "IncrementMismatchError"

\* C10: a row whose number of values differs from the size of the canonical grid
\* makes spline_fx fail with a row-length error, and no value is produced for it.
C10_RowLength ==
    (SfEnded /\ ~FullRows(sf_env.raw_cdf)
        /\ Len(sf_env.qvals.v) >= 1 /\ AllOnGrid(sf_env.qvals.v, sf_env.inc)) =>
        /\ sf_pc = "raised"
        /\ sf_err = "RowLengthError"
        /\ sf_ret = NoneV

\* C11: for every input row, requesting the lowest canonical level (1) returns
\* the row's first control value and requesting the highest (99) its last.
C11_BoundaryLevels ==
    (SfEnded /\ Len(sf_env.raw_cdf) >= 1 /\ FullRows(sf_env.raw_cdf)
        /\ Len(sf_env.qvals.v) >= 1
        /\ \A j \in 1..Len(sf_env.qvals.v) : sf_env.qvals.v[j] \in {<<1, 1>>, <<99, 1>>}) =>
        /\ sf_pc = "returned"
        /\ sf_ret.some
        /\ \A m \in 1..Len(sf_env.raw_cdf), j \in 1..Len(sf_env.qvals.v) :
              sf_ret.v.rows[m][j] =
                  IF sf_env.qvals.v[j] = <<1, 1>> THEN sf_env.raw_cdf[m][1]
                  ELSE sf_env.raw_cdf[m][GridSize]

----------------------------------------------------------------------------
(* Properties of sumproduct, checked under SpecSumproduct *)

SameLengths(lists) == \A a, b \in 1..Len(lists) : Len(lists[a]) = Len(lists[b])

\* the product of the elements at position j, and the sum of these products
\* over the first n positions
RECURSIVE ProductAt(_, _, _)
ProductAt(lists, j, k) ==
    IF k > Len(lists) THEN 1 ELSE lists[k][j] * ProductAt(lists, j, k + 1)
RECURSIVE SumOfProducts(_, _)
SumOfProducts(lists, n) ==
    IF n = 0 THEN 0 ELSE ProductAt(lists, n, 1) + SumOfProducts(lists, n - 1)

\* C13: for k >= 2 sequences of the same length n, sumproduct returns the sum
\* over the n positions of the product of the k elements there; 0 for n = 0.
C13_SumOfProducts ==
    (sp.pc = "returned" /\ Len(sp.lists) >= 2 /\ SameLengths(sp.lists)) =>
        /\ sp.ret = Some(SumOfProducts(sp.lists, Len(sp.lists[1])))
        /\ Len(sp.lists[1]) = 0 => sp.ret = Some(0)

\* three vectors of two numbers have been multiplied and summed
C13_Witness ==
    /\ sp.pc = "returned"
    /\ sp.lists = << <<1, 2>>, <<2, 1>>, <<1, 2>> >>
    /\ sp.ret = Some(6)

\* C14: when the sequences differ in length the call fails with an error and
\* returns no number.
C14_LengthMismatch ==
    (sp.pc \in {"returned", "raised"} /\ ~SameLengths(sp.lists)) =>
        /\ sp.pc = "raised"
        /\ sp.ret = NoneV

----------------------------------------------------------------------------
(* Properties of send_html_email, checked under SpecSend *)

\* the recipients have been chosen (line 58 and its branches have run)
RecipientsChosen == em.TO_list # NoneV

\* C15: whenever testmode is true or no dist_name is given, the To list is the
\* sender's own address list and Cc is empty, whatever the distribution-list
\* file holds: the file is not read, and the message carries no Cc header.
C15_TestModeRecipients ==
    (RecipientsChosen /\ (em.testmode \/ em.dist_name = NoneV)) =>
        /\ em.TO_list = em.email_list
        /\ em.TO_list = em.FROM_list
        /\ em.CC_list = Some(List(<<>>))
        /\ ~em.dist_read
        /\ em.msg # NoneV =>
              /\ em.msg.v.To = Join(em.email_list.v)
              /\ em.msg.v.Cc = NoneV

\* a test-mode mail that names a distribution list with To and Cc addresses
\* has been delivered to the sender alone
C15_Witness ==
    /\ em.pc = "returned"
    /\ em.testmode
    /\ em.dist_name = Some("team")
    /\ em.dist_file = "tocc"
    /\ em.delivered = 1
    /\ em.msg.v.To = Join(List(<<SigFrom>>))

\* the call has ended
EmEnded == em.pc \in {"returned", "raised"}

\* C17: s.send_message is attempted at most five times, no attempt follows the
\* first success, and the call always ends.
C17_SendLoop ==
    /\ [](em.attempts <= 5)
    /\ [][em.delivered >= 1 => em'.attempts = em.attempts]_vars
    /\ <>EmEnded

\* four tries have failed and the fifth has delivered the mail
C17_Witness ==
    /\ em.pc = "returned"
    /\ em.attempts = 5
    /\ em.delivered = 1

\* C18: error_email is called exactly once if and only if all five attempts
\* fail and never when one succeeds; when called it is addressed to the
\* sender's address list, carries the exception and the failure message as
\* error text and the calling script as origin.
C18_ErrorEmail ==
    /\ em.ee.calls <= 1
    /\ em.delivered >= 1 => em.ee.calls = 0
    /\ EmEnded => (em.ee.calls = 1 <=> (em.attempts = 5 /\ em.delivered = 0))
    /\ em.ee.msg # NoneV =>
          /\ em.ee.msg.v.To = Join(em.email_list.v)
          /\ em.ee.params.e = Some(Str("exception"))
          /\ em.ee.params.errmsg = Some(Str("Failed to send email.\n"))
          /\ em.ee.params.origin_script = Some(Str("__file__"))

----------------------------------------------------------------------------
(* Properties of find_latest, checked under SpecFindLatest *)

\* the month string searched for month m, and the files of the directory that
\* qualify for it
MonthString(m) ==
    LET mon == Strftime(m, fl.y_mo_fmt)
    IN  CASE fl.mo_fmt_case = "upper" -> Upper(mon)
          [] fl.mo_fmt_case = "lower" -> Lower(mon)
          [] OTHER -> mon
Qualifies(f, m) ==
    /\ \A k \in 1..Len(fl.str_match_list) : Contains(f, fl.str_match_list[k])
    /\ f[1] # "~"
    /\ Contains(f, MonthString(m))
\* the months at or below y_mo, and December when y_mo is 1
SearchedMonths == IF fl.y_mo.n = 1 THEN {1, 12} ELSE 1..fl.y_mo.n
\* m is searched before n
Before(m, n) == IF fl.y_mo.n = 1 THEN m = 1 /\ n = 12 ELSE m > n
HasFiles(m) == \E f \in fl.dir : Qualifies(f, m)

\* the returned name is the greatest qualifying name of the first searched
\* month that has qualifying files
RightFile(f) ==
    \E m \in SearchedMonths :
        /\ Qualifies(f, m)
        /\ f \in fl.dir
        /\ \A n \in SearchedMonths : Before(n, m) => ~HasFiles(n)
        /\ \A g \in fl.dir : Qualifies(g, m) => LexLeq(g, f)

\* the call has ended, with a year it accepts and a list of strings to match
FlEnded ==
    /\ fl.pc \in {"returned", "raised"}
    /\ ~fl.t_yr.str
    /\ Len(fl.str_match_list) > 0

\* C16: find_latest returns the greatest name among the files that hold every
\* string of str_match_list, do not start with "~" and hold the month string
\* of the latest month at or below y_mo that has such files; it returns a
\* defined result for every directory content, also when no file matches.
C16_FindLatest ==
    FlEnded =>
        /\ fl.pc = "returned"
        /\ fl.ret.some => RightFile(fl.ret.v)

====
